---- MODULE Spec2Model ----
(***************************************************************************)
(* A model of agui_cli.client.AgUIClient: the stream() generator, its HTTP *)
(* and WebSocket drivers, the WebSocket frame codec and the message        *)
(* normalizer.                                                             *)
(*                                                                         *)
(* Text is a sequence of one-character strings, bytes are a sequence of    *)
(* numbers in 0..255.  A JSON value is a record [t, v]: t is its type tag  *)
(* ("str", "int", "bool", "null", "list", "dict") and v its content; a     *)
(* dict's content is the sequence of its [k, v] items in insertion order.  *)
(***************************************************************************)
EXTENDS Integers, Sequences, FiniteSets, TLC

(***************************************************************************)
(* Bounds of the model.                                                    *)
(***************************************************************************)
\* frames the server may put on the wire during one WebSocket session
MaxFrames == 2
\* body lines the server may send during one HTTP session
MaxLines == 2
\* most bytes one sock.recv() call returns
MaxChunk == 2
\* frames the server may have sent that the driver has not read yet
MaxAhead == 2

Min(a, b) == IF a < b THEN a ELSE b

(***************************************************************************)
(* Characters and bytes.                                                   *)
(***************************************************************************)
\* ord() of the characters the model's texts are written in
Ord ==
    ("\t" :> 9) @@ ("\n" :> 10) @@ ("\r" :> 13) @@ (" " :> 32) @@
    ("\"" :> 34) @@ ("'" :> 39) @@ ("," :> 44) @@ ("-" :> 45) @@
    ("0" :> 48) @@ ("1" :> 49) @@ ("2" :> 50) @@ ("3" :> 51) @@
    ("4" :> 52) @@ ("5" :> 53) @@ ("6" :> 54) @@ ("7" :> 55) @@
    ("8" :> 56) @@ ("9" :> 57) @@ (":" :> 58) @@ ("?" :> 63) @@
    ("T" :> 84) @@ ("F" :> 70) @@ ("N" :> 78) @@
    ("[" :> 91) @@ ("]" :> 93) @@
    ("a" :> 97) @@ ("b" :> 98) @@ ("c" :> 99) @@ ("d" :> 100) @@
    ("e" :> 101) @@ ("f" :> 102) @@ ("g" :> 103) @@ ("h" :> 104) @@
    ("i" :> 105) @@ ("l" :> 108) @@ ("m" :> 109) @@ ("n" :> 110) @@ ("o" :> 111) @@ ("q" :> 113) @@ ("r" :> 114) @@
    ("s" :> 115) @@ ("t" :> 116) @@ ("u" :> 117) @@ ("x" :> 120) @@
    ("y" :> 121) @@ ("{" :> 123) @@ ("}" :> 125)

\* U+FFFD, what decode(errors="replace") puts for an undecodable byte
Replacement == "U+FFFD"

\* str.encode() of a text of the characters above
encode(text) == [i \in 1..Len(text) |-> Ord[text[i]]]

\* one byte of bytes.decode(errors="replace"): the bytes of the model are
\* the ASCII codes above and 0xFF, which is never valid UTF-8
Chr(b) ==
    IF \E c \in DOMAIN Ord : Ord[c] = b
    THEN CHOOSE c \in DOMAIN Ord : Ord[c] = b
    ELSE Replacement

decode(bytes) == [i \in 1..Len(bytes) |-> Chr(bytes[i])]

\* b1 ^ b2 on non-negative integers
RECURSIVE Xor(_, _)
Xor(a, b) ==
    IF a = 0 THEN b
    ELSE IF b = 0 THEN a
    ELSE (((a % 2) + (b % 2)) % 2) + (2 * Xor(a \div 2, b \div 2))

\* n.to_bytes(k, "big")
RECURSIVE to_bytes(_, _)
to_bytes(n, k) ==
    IF k = 0 THEN <<>> ELSE Append(to_bytes(n \div 256, k - 1), n % 256)

\* int.from_bytes(bytes, "big")
RECURSIVE from_bytes(_)
from_bytes(bytes) ==
    IF bytes = <<>> THEN 0
    ELSE (256 * from_bytes(SubSeq(bytes, 1, Len(bytes) - 1)))
         + bytes[Len(bytes)]

\* the masking adding the key to the bytes
xor_mask_add(payload, mask_key) ==
    [i \in 1..Len(payload) |->
        (payload[i] + mask_key[((i - 1) % 4) + 1]) % 256]

\* bytes(b ^ mask_key[i % 4] for i, b in enumerate(payload))
xor_mask(payload, mask_key) ==
    [i \in 1..Len(payload) |-> Xor(payload[i], mask_key[((i - 1) % 4) + 1])]

(***************************************************************************)
(* The frame codec.                                                        *)
(***************************************************************************)
\* _send_websocket_frame masking byte i with mask_key[(i + 1) % 4]
send_websocket_frame_shifted_mask(opcode, payload, mask, mask_key) ==
    LET length == Len(payload)
        header == <<128 + (opcode % 16), (IF mask THEN 128 ELSE 0) + length>>
    IN  IF mask
        THEN header \o mask_key
             \o [i \in 1..length |-> Xor(payload[i], mask_key[(i % 4) + 1])]
        ELSE header \o payload

\* _send_websocket_frame with the 64-bit form for every length from 126 on
send_websocket_frame_widest(opcode, payload, mask, mask_key) ==
    LET first_byte == 128 + (opcode % 16)
        length == Len(payload)
        mbit == IF mask THEN 128 ELSE 0
        header ==
            IF length < 126 THEN <<first_byte, mbit + length>>
            ELSE <<first_byte, mbit + 127>> \o to_bytes(length, 8)
    IN  IF mask
        THEN header \o mask_key \o xor_mask(payload, mask_key)
        ELSE header \o payload

\* the bytes _send_websocket_frame hands to sock.sendall; mask_key is the
\* value os.urandom(4) returned
send_websocket_frame(opcode, payload, mask, mask_key) ==
    LET first_byte == 128 + (opcode % 16)
        length == Len(payload)
        mbit == IF mask THEN 128 ELSE 0
        header ==
            IF length < 126 THEN <<first_byte, mbit + length>>
            ELSE IF length < 65536
                THEN <<first_byte, mbit + 126>> \o to_bytes(length, 2)
                ELSE <<first_byte, mbit + 127>> \o to_bytes(length, 8)
    IN  IF mask
        THEN header \o mask_key \o xor_mask(payload, mask_key)
        ELSE header \o payload

\* _send_websocket_message sending a binary frame
send_websocket_message_binary(text, mask_key) ==
    send_websocket_frame(2, encode(text), TRUE, mask_key)

\* the bytes _send_websocket_message hands to sock.sendall
send_websocket_message(text, mask_key) ==
    send_websocket_frame(1, encode(text), TRUE, mask_key)

\* sock.recv(n) on a stream holding `wire`, read so far up to pos - 1; the
\* network hands over at most `chunk` bytes per call.  The empty result is
\* the end of the stream.
sock_recv(wire, pos, n, chunk) ==
    SubSeq(wire, pos, Min(Len(wire), pos + Min(n, chunk) - 1))

\* the loop of _recv_exact; ok = FALSE is its ConnectionError
RECURSIVE recv_exact_loop(_, _, _, _, _)
recv_exact_loop(wire, pos, nbytes, chunk, data) ==
    IF Len(data) >= nbytes
    THEN [ok |-> TRUE, data |-> data, pos |-> pos]
    ELSE LET got == sock_recv(wire, pos, nbytes - Len(data), chunk)
         IN  IF got = <<>>
             THEN [ok |-> FALSE, data |-> data, pos |-> pos]
             ELSE recv_exact_loop(wire, pos + Len(got), nbytes, chunk,
                                  data \o got)

recv_exact(wire, pos, nbytes, chunk) ==
    recv_exact_loop(wire, pos, nbytes, chunk, <<>>)

\* what a failed read of a frame leaves
NoFrame(pos) == [ok |-> FALSE, opcode |-> 0, payload |-> <<>>, pos |-> pos]

\* _recv_websocket_messages reading no mask key before an empty payload
recv_websocket_message_skips_key(wire, pos, chunk) ==
    LET header == recv_exact(wire, pos, 2, chunk)
    IN  IF ~header.ok THEN NoFrame(header.pos)
        ELSE
        LET first == header.data[1]
            second == header.data[2]
            opcode == first % 16
            masked == second >= 128
            base == second % 128
            ext == IF base = 126 THEN recv_exact(wire, header.pos, 2, chunk)
                   ELSE IF base = 127
                        THEN recv_exact(wire, header.pos, 8, chunk)
                        ELSE [ok |-> TRUE, data |-> <<>>, pos |-> header.pos]
        IN  IF ~ext.ok THEN NoFrame(ext.pos)
            ELSE
            LET length == IF base >= 126 THEN from_bytes(ext.data) ELSE base
                key == IF masked /\ length # 0
                       THEN recv_exact(wire, ext.pos, 4, chunk)
                       ELSE [ok |-> TRUE, data |-> <<>>, pos |-> ext.pos]
            IN  IF ~key.ok THEN NoFrame(key.pos)
                ELSE
                LET body == IF length # 0
                            THEN recv_exact(wire, key.pos, length, chunk)
                            ELSE [ok |-> TRUE, data |-> <<>>, pos |-> key.pos]
                IN  IF ~body.ok THEN NoFrame(body.pos)
                    ELSE [ok |-> TRUE,
                          opcode |-> opcode,
                          payload |-> IF masked /\ length # 0
                                      THEN xor_mask(body.data, key.data)
                                      ELSE body.data,
                          pos |-> body.pos]

\* one turn of the loop of _recv_websocket_messages: the frame that starts at
\* wire[pos], and the position after it
recv_websocket_message(wire, pos, chunk) ==
    LET header == recv_exact(wire, pos, 2, chunk)
    IN  IF ~header.ok THEN NoFrame(header.pos)
        ELSE
        LET first == header.data[1]
            second == header.data[2]
            opcode == first % 16
            masked == second >= 128
            base == second % 128
            ext == IF base = 126 THEN recv_exact(wire, header.pos, 2, chunk)
                   ELSE IF base = 127
                        THEN recv_exact(wire, header.pos, 8, chunk)
                        ELSE [ok |-> TRUE, data |-> <<>>, pos |-> header.pos]
        IN  IF ~ext.ok THEN NoFrame(ext.pos)
            ELSE
            LET length == IF base >= 126 THEN from_bytes(ext.data) ELSE base
                key == IF masked THEN recv_exact(wire, ext.pos, 4, chunk)
                       ELSE [ok |-> TRUE, data |-> <<>>, pos |-> ext.pos]
            IN  IF ~key.ok THEN NoFrame(key.pos)
                ELSE
                LET body == IF length # 0
                            THEN recv_exact(wire, key.pos, length, chunk)
                            ELSE [ok |-> TRUE, data |-> <<>>, pos |-> key.pos]
                IN  IF ~body.ok THEN NoFrame(body.pos)
                    ELSE [ok |-> TRUE,
                          opcode |-> opcode,
                          payload |-> IF masked /\ length # 0
                                      THEN xor_mask(body.data, key.data)
                                      ELSE body.data,
                          pos |-> body.pos]

(***************************************************************************)
(* Text helpers of the HTTP driver.                                        *)
(***************************************************************************)
\* the characters of the model's texts that str.strip() removes
Whitespace == {" ", "\t", "\n", "\r"}

RECURSIVE lstrip(_)
lstrip(s) ==
    IF s # <<>> /\ Head(s) \in Whitespace THEN lstrip(Tail(s)) ELSE s

RECURSIVE rstrip(_)
rstrip(s) ==
    IF s # <<>> /\ s[Len(s)] \in Whitespace
    THEN rstrip(SubSeq(s, 1, Len(s) - 1))
    ELSE s

\* str.strip()
strip(s) == rstrip(lstrip(s))

\* str.startswith(prefix)
startswith(s, prefix) ==
    Len(s) >= Len(prefix) /\ SubSeq(s, 1, Len(prefix)) = prefix

\* prefix in s
contains(s, sub) ==
    \E i \in 1..(Len(s) - Len(sub) + 1) : SubSeq(s, i, i + Len(sub) - 1) = sub

DataPrefix == <<"d", "a", "t", "a", ":">>

(***************************************************************************)
(* JSON.  JsonLoads is json.loads and JsonDumps is json.dumps(value,       *)
(* ensure_ascii=False) on the texts of the model: strings hold no quote,   *)
(* no backslash escape, and numbers are integers without fraction or       *)
(* exponent.                                                               *)
(***************************************************************************)
JNull == [t |-> "null", v |-> 0]
JBool(b) == [t |-> "bool", v |-> b]
JInt(n) == [t |-> "int", v |-> n]
JStr(chars) == [t |-> "str", v |-> chars]
JList(items) == [t |-> "list", v |-> items]
JDict(items) == [t |-> "dict", v |-> items]

Digits == <<"0", "1", "2", "3", "4", "5", "6", "7", "8", "9">>
IsDigit(c) == \E d \in 1..10 : Digits[d] = c
DigitVal(c) == (CHOOSE d \in 1..10 : Digits[d] = c) - 1

\* a failed parse: JSONDecodeError
NoParse == [ok |-> FALSE, v |-> JNull, i |-> 0]
Parsed(value, next) == [ok |-> TRUE, v |-> value, i |-> next]

RECURSIVE SkipWs(_, _)
SkipWs(s, i) ==
    IF i <= Len(s) /\ s[i] \in Whitespace THEN SkipWs(s, i + 1) ELSE i

\* the index of the quote that closes the string whose content starts at
\* s[i], 0 when the string holds a control character or never closes
RECURSIVE ScanString(_, _)
ScanString(s, i) ==
    IF i > Len(s) THEN 0
    ELSE IF s[i] = "\"" THEN i
    ELSE IF s[i] \in {"\t", "\n", "\r"} THEN 0
    ELSE ScanString(s, i + 1)

\* s[i] is the opening quote
ParseString(s, i) ==
    LET close == ScanString(s, i + 1)
    IN  IF close = 0 THEN NoParse
        ELSE Parsed(JStr(SubSeq(s, i + 1, close - 1)), close + 1)

\* the digits from s[i] on, added to acc
RECURSIVE ScanDigits(_, _, _)
ScanDigits(s, i, acc) ==
    IF i <= Len(s) /\ IsDigit(s[i])
    THEN ScanDigits(s, i + 1, (10 * acc) + DigitVal(s[i]))
    ELSE [n |-> acc, i |-> i]

\* -?(0|[1-9][0-9]*)
ParseNumber(s, i) ==
    LET neg == i <= Len(s) /\ s[i] = "-"
        j == IF neg THEN i + 1 ELSE i
    IN  IF j > Len(s) \/ ~IsDigit(s[j]) THEN NoParse
        ELSE LET d == IF s[j] = "0" THEN [n |-> 0, i |-> j + 1]
                      ELSE ScanDigits(s, j, 0)
             IN  Parsed(JInt(IF neg THEN 0 - d.n ELSE d.n), d.i)

\* the item lists of a dict after d[key] = value
DictSet(items, key, value) ==
    IF \E n \in 1..Len(items) : items[n].k = key
    THEN [n \in 1..Len(items) |->
            IF items[n].k = key THEN [k |-> key, v |-> value] ELSE items[n]]
    ELSE Append(items, [k |-> key, v |-> value])

RECURSIVE ParseValue(_, _)
RECURSIVE ParseElements(_, _, _)
RECURSIVE ParseMembers(_, _, _)

\* the elements of an array from the value at s[i] on
ParseElements(s, i, acc) ==
    LET e == ParseValue(s, i)
    IN  IF ~e.ok THEN NoParse
        ELSE LET j == SkipWs(s, e.i)
             IN  IF j > Len(s) THEN NoParse
                 ELSE IF s[j] = "]"
                     THEN Parsed(JList(Append(acc, e.v)), j + 1)
                 ELSE IF s[j] = ","
                     THEN ParseElements(s, SkipWs(s, j + 1), Append(acc, e.v))
                 ELSE NoParse

\* the members of an object from the key at s[i] on
ParseMembers(s, i, acc) ==
    IF i > Len(s) \/ s[i] # "\"" THEN NoParse
    ELSE
    LET key == ParseString(s, i)
    IN  IF ~key.ok THEN NoParse
        ELSE
        LET c == SkipWs(s, key.i)
        IN  IF c > Len(s) \/ s[c] # ":" THEN NoParse
            ELSE
            LET e == ParseValue(s, SkipWs(s, c + 1))
            IN  IF ~e.ok THEN NoParse
                ELSE
                LET j == SkipWs(s, e.i)
                    items == DictSet(acc, key.v.v, e.v)
                IN  IF j > Len(s) THEN NoParse
                    ELSE IF s[j] = "}" THEN Parsed(JDict(items), j + 1)
                    ELSE IF s[j] = ","
                        THEN ParseMembers(s, SkipWs(s, j + 1), items)
                    ELSE NoParse

\* the value that starts at s[i]
ParseValue(s, i) ==
    IF i > Len(s) THEN NoParse
    ELSE IF s[i] = "\"" THEN ParseString(s, i)
    ELSE IF s[i] = "{"
        THEN LET j == SkipWs(s, i + 1)
             IN  IF j <= Len(s) /\ s[j] = "}"
                 THEN Parsed(JDict(<<>>), j + 1)
                 ELSE ParseMembers(s, j, <<>>)
    ELSE IF s[i] = "["
        THEN LET j == SkipWs(s, i + 1)
             IN  IF j <= Len(s) /\ s[j] = "]"
                 THEN Parsed(JList(<<>>), j + 1)
                 ELSE ParseElements(s, j, <<>>)
    ELSE IF startswith(SubSeq(s, i, Len(s)), <<"n", "u", "l", "l">>)
        THEN Parsed(JNull, i + 4)
    ELSE IF startswith(SubSeq(s, i, Len(s)), <<"t", "r", "u", "e">>)
        THEN Parsed(JBool(TRUE), i + 4)
    ELSE IF startswith(SubSeq(s, i, Len(s)), <<"f", "a", "l", "s", "e">>)
        THEN Parsed(JBool(FALSE), i + 5)
    ELSE ParseNumber(s, i)

\* json.loads(s): ok = FALSE is its JSONDecodeError
JsonLoads(s) ==
    LET r == ParseValue(s, SkipWs(s, 1))
    IN  IF r.ok /\ SkipWs(s, r.i) > Len(s) THEN r ELSE NoParse

\* str(n) of a non-negative integer
RECURSIVE NatStr(_)
NatStr(n) ==
    IF n < 10 THEN <<Digits[n + 1]>>
    ELSE Append(NatStr(n \div 10), Digits[(n % 10) + 1])

IntStr(n) == IF n < 0 THEN <<"-">> \o NatStr(0 - n) ELSE NatStr(n)

RECURSIVE JsonDumps(_)
RECURSIVE DumpsItems(_, _)

\* the items of a list (isDict = FALSE) or a dict, joined by ", "
DumpsItems(items, isDict) ==
    IF items = <<>> THEN <<>>
    ELSE LET one == IF isDict
                    THEN <<"\"">> \o Head(items).k \o <<"\"", ":", " ">>
                         \o JsonDumps(Head(items).v)
                    ELSE JsonDumps(Head(items))
         IN  IF Len(items) = 1 THEN one
             ELSE one \o <<",", " ">> \o DumpsItems(Tail(items), isDict)

JsonDumps(value) ==
    IF value.t = "str" THEN <<"\"">> \o value.v \o <<"\"">>
    ELSE IF value.t = "int" THEN IntStr(value.v)
    ELSE IF value.t = "bool"
        THEN IF value.v THEN <<"t", "r", "u", "e">>
             ELSE <<"f", "a", "l", "s", "e">>
    ELSE IF value.t = "null" THEN <<"n", "u", "l", "l">>
    ELSE IF value.t = "list" THEN <<"[">> \o DumpsItems(value.v, FALSE) \o <<"]">>
    ELSE <<"{">> \o DumpsItems(value.v, TRUE) \o <<"}">>

RECURSIVE PyRepr(_)
RECURSIVE ReprItems(_, _)

ReprItems(items, isDict) ==
    IF items = <<>> THEN <<>>
    ELSE LET one == IF isDict
                    THEN <<"'">> \o Head(items).k \o <<"'", ":", " ">>
                         \o PyRepr(Head(items).v)
                    ELSE PyRepr(Head(items))
         IN  IF Len(items) = 1 THEN one
             ELSE one \o <<",", " ">> \o ReprItems(Tail(items), isDict)

\* repr(value) of a parsed JSON value
PyRepr(value) ==
    IF value.t = "str" THEN <<"'">> \o value.v \o <<"'">>
    ELSE IF value.t = "int" THEN IntStr(value.v)
    ELSE IF value.t = "bool"
        THEN IF value.v THEN <<"T", "r", "u", "e">>
             ELSE <<"F", "a", "l", "s", "e">>
    ELSE IF value.t = "null" THEN <<"N", "o", "n", "e">>
    ELSE IF value.t = "list" THEN <<"[">> \o ReprItems(value.v, FALSE) \o <<"]">>
    ELSE <<"{">> \o ReprItems(value.v, TRUE) \o <<"}">>

\* str(value): a string's own text, the repr of anything else
PyStr(value) == IF value.t = "str" THEN value.v ELSE PyRepr(value)

\* bool(value)
Truthy(value) ==
    IF value.t = "str" THEN value.v # <<>>
    ELSE IF value.t = "int" THEN value.v # 0
    ELSE IF value.t = "bool" THEN value.v
    ELSE IF value.t = "null" THEN FALSE
    ELSE value.v # <<>>

\* a or b
PyOr(a, b) == IF Truthy(a) THEN a ELSE b

\* parsed.get(key): the value, None when the key is missing
DictGet(d, key) ==
    IF \E n \in 1..Len(d.v) : d.v[n].k = key
    THEN d.v[CHOOSE n \in 1..Len(d.v) : d.v[n].k = key].v
    ELSE JNull

(***************************************************************************)
(* The message normalizer.                                                 *)
(***************************************************************************)
AgUIMessage(text, raw) == [text |-> text, raw |-> raw]

KeyUser == <<"u", "s", "e", "r">>
KeySender == <<"s", "e", "n", "d", "e", "r">>
KeyName == <<"n", "a", "m", "e">>
KeyRole == <<"r", "o", "l", "e">>
KeyMessage == <<"m", "e", "s", "s", "a", "g", "e">>
KeyContent == <<"c", "o", "n", "t", "e", "n", "t">>
KeyText == <<"t", "e", "x", "t">>
KeyBody == <<"b", "o", "d", "y">>

\* lines 192-213 of _normalize_message: the message of a parsed value
normalize_parsed(parsed) ==
    IF parsed.t = "dict"
    THEN LET prefix == PyOr(DictGet(parsed, KeyUser),
                       PyOr(DictGet(parsed, KeySender),
                       PyOr(DictGet(parsed, KeyName),
                            DictGet(parsed, KeyRole))))
             found == PyOr(DictGet(parsed, KeyMessage),
                      PyOr(DictGet(parsed, KeyContent),
                      PyOr(DictGet(parsed, KeyText),
                           DictGet(parsed, KeyBody))))
             body == IF found.t = "null" THEN JStr(JsonDumps(parsed))
                     ELSE IF found.t \in {"dict", "list"}
                         THEN JStr(JsonDumps(found))
                     ELSE found
         IN  AgUIMessage(IF Truthy(prefix)
                         THEN PyStr(prefix) \o <<":", " ">> \o PyStr(body)
                         ELSE PyStr(body),
                         parsed)
    ELSE AgUIMessage(PyStr(parsed), parsed)

\* _normalize_message keeping no raw value of a text that is no JSON
normalize_message_drops_raw(raw_text) ==
    LET loaded == JsonLoads(raw_text)
    IN  IF ~loaded.ok THEN AgUIMessage(raw_text, JNull)
        ELSE normalize_parsed(loaded.v)

\* _normalize_message(raw_text)
normalize_message(raw_text) ==
    LET loaded == JsonLoads(raw_text)
    IN  IF ~loaded.ok THEN AgUIMessage(raw_text, JStr(raw_text))
        ELSE normalize_parsed(loaded.v)

(***************************************************************************)
(* The inputs of one stream() call and what the server may send.           *)
(***************************************************************************)
hi == <<"h", "i">>
textA == <<"{", "\"", "t", "e", "x", "t", "\"", ":", "\"", "a", "\"", "}">>

\* urlparse(server_url).scheme
Schemes == {"ws", "wss", "http", "https", "ftp", ""}

Questions == {hi}

\* values of os.urandom(4)
MaskKeys == {<<0, 0, 0, 0>>, <<1, 2, 3, 255>>}

Crlf == <<"\r", "\n">>
Crlf2 == Crlf \o Crlf

\* the status lines the server may answer the upgrade request with
StatusLines ==
    {<<"1", "0", "1">>, <<"1", "0", "0">>, <<"0", "1", "0", "1", "0">>, <<>>}

\* the server's whole answer to the upgrade request, as bytes: a status line
\* and the end of the headers, or a header line between them
Responses ==
    {encode(st \o Crlf2) : st \in StatusLines}
    \cup {encode(st \o Crlf \o <<"1", "0", "1">> \o Crlf2) : st \in StatusLines}

IsPrefix(p, s) == Len(p) <= Len(s) /\ SubSeq(s, 1, Len(p)) = p

\* a frame as the server puts it on the wire (RFC 6455 5.2, FIN set)
server_frame(opcode, payload, masked, key) ==
    <<128 + opcode, (IF masked THEN 128 ELSE 0) + Len(payload)>>
    \o (IF masked THEN key \o xor_mask(payload, key) ELSE payload)

\* the frames the server sends: text frames (empty, a text that is no JSON,
\* a JSON mapping, bytes that are no UTF-8, a masked one), pings (one of
\* them masked), a close frame and frames of the other opcodes
InFrames ==
    {server_frame(1, p, FALSE, <<>>) :
        p \in {<<>>, encode(hi), encode(textA), <<255>>}}
    \cup {server_frame(op, encode(hi), TRUE, <<1, 2, 3, 255>>) : op \in {1, 9}}
    \cup {server_frame(9, p, FALSE, <<>>) : p \in {<<>>, encode(hi)}}
    \cup {server_frame(8, <<>>, FALSE, <<>>)}
    \cup {server_frame(op, encode(hi), FALSE, <<>>) : op \in {0, 2, 10}}

\* the frame the server may be cut off in
CutFrame == server_frame(1, encode(hi), TRUE, <<1, 2, 3, 255>>)

\* a text frame of 126 bytes, its length in the 16-bit extended form
LongCutFrame == <<129, 126, 0, 126>> \o [i \in 1..126 |-> 97]

\* the prefixes of these frames a connection may end with: any of the
\* short frame; of the long one its header, its header and half its
\* extended length, and all up to the first byte of its payload
Cuts ==
    {SubSeq(CutFrame, 1, n) : n \in 0..(Len(CutFrame) - 1)}
    \cup {SubSeq(LongCutFrame, 1, n) : n \in {2, 3, 5}}

\* the lines of the HTTP response body, as the bytes iterating it returns
RawLines ==
    {encode(lead \o pre \o mid \o body \o <<"\n">>) :
        lead \in {<<>>, <<" ">>}, pre \in {<<>>, DataPrefix},
        mid \in {<<>>, <<" ">>}, body \in {<<>>, hi}}
    \cup {encode(hi), encode(<<"d", "a", "t", "a", "\r", "\n">>), <<255, 10>>,
          encode(textA \o <<"\n">>),
          encode(DataPrefix \o <<" ">> \o textA \o <<"\n">>)}

(***************************************************************************)
(* The state of one stream() call.                                         *)
(***************************************************************************)
VARIABLES
    scheme,     \* parsed.scheme, "(read)" after the code's last read of it
    question,   \* the question
    pc,         \* where the generator stands
    outcome,    \* "running", "done" (exhausted), "closed" (GeneratorExit),
                \* or the exception that reached the caller
    sock,       \* the socket of _stream_websocket: "none", "open", "closed"
    closes,     \* calls of sock.close() so far
    resp,       \* the response of urlopen: "none", "open", "closed"
    connects,   \* calls of socket.create_connection and urlopen so far
    requests,   \* HTTP requests sent so far: "GET" (the upgrade), "POST"
    buffer,     \* buffer of _read_http_response_headers, empty once the
                \* upgrade is accepted
    sentFrames, \* the byte strings of the frames sent, in order
    wire,       \* the bytes the server has sent after its handshake answer
    eof,        \* the server has closed its side
    nframes,    \* frames the server has sent
    rpos,       \* index in wire of the next byte to read
    inbound,    \* the frames _recv_websocket_messages has yielded
    httpLines,  \* the raw lines read from the HTTP response
    normIn,     \* the texts handed to _normalize_message
    yielded     \* the messages yielded to the caller

vars == <<scheme, question, pc, outcome, sock, closes, resp, connects,
          requests, buffer, sentFrames, wire, eof, nframes, rpos, inbound,
          httpLines, normIn, yielded>>

server == <<wire, eof, nframes>>
wsHist == <<sentFrames, rpos, inbound>>
out == <<httpLines, normIn, yielded>>

Errors ==
    {"ValueError", "ConnectionError", "TimeoutError", "BrokenPipeError",
     "OSError", "SSLError", "URLError"}

Init ==
    /\ scheme \in Schemes
    /\ question \in Questions
    /\ pc = "start"
    /\ outcome = "running"
    /\ sock = "none"
    /\ closes = 0
    /\ resp = "none"
    /\ connects = 0
    /\ requests = <<>>
    /\ buffer = <<>>
    /\ sentFrames = <<>>
    /\ wire = <<>>
    /\ eof = FALSE
    /\ nframes = 0
    /\ rpos = 1
    /\ inbound = <<>>
    /\ httpLines = <<>>
    /\ normIn = <<>>
    /\ yielded = <<>>

\* an exception leaves the generator: it reaches the caller
Raise(exc) == pc' = "end" /\ outcome' = exc

\* json.dumps({"question": question})
QuestionText(q) ==
    JsonDumps(JDict(<<[k |-> <<"q", "u", "e", "s", "t", "i", "o", "n">>,
                       v |-> JStr(q)]>>))

(***************************************************************************)
(* stream(): the dispatch on the scheme.                                   *)
(***************************************************************************)
\* stream() taking every scheme that is not ws or wss for HTTP
transport_lenient(s) ==
    IF s \in {"ws", "wss"} THEN "websocket" ELSE "http"

\* the branch stream() takes
transport(s) ==
    IF s \in {"ws", "wss"} THEN "websocket"
    ELSE IF s \in {"http", "https"} THEN "http"
    ELSE "unsupported"

stream ==
    /\ pc = "start"
    /\ IF transport(scheme) = "websocket"
       THEN pc' = "connect" /\ UNCHANGED <<outcome, scheme>>
       ELSE IF transport(scheme) = "http"
           THEN pc' = "urlopen" /\ scheme' = "(read)" /\ outcome' = outcome
       ELSE Raise("ValueError") /\ UNCHANGED scheme
    /\ UNCHANGED <<question, sock, closes, resp, connects, requests, buffer,
                   server, wsHist, out>>

\* the caller drops a generator it never started: nothing of it runs
close_unstarted ==
    /\ pc = "start"
    /\ pc' = "end"
    /\ outcome' = "closed"
    /\ UNCHANGED <<scheme, question, sock, closes, resp, connects, requests,
                   buffer, server, wsHist, out>>

(***************************************************************************)
(* _stream_websocket: connection and handshake.                            *)
(***************************************************************************)
\* a failed connection tried again
connect_retried == pc' = "connect" /\ outcome' = outcome

\* socket.create_connection raised
connect_failed == Raise("OSError")

\* socket.create_connection(...), and the test of the scheme on line 83
create_connection ==
    /\ pc = "connect"
    /\ connects' = connects + 1
    /\ \/ /\ sock' = "open"
          /\ IF scheme = "wss"
             THEN pc' = "tls" /\ UNCHANGED scheme
             ELSE pc' = "send_handshake" /\ scheme' = "(read)"
          /\ outcome' = outcome
       \/ /\ connect_failed
          /\ UNCHANGED <<sock, scheme>>
    /\ UNCHANGED <<question, closes, resp, requests, buffer, server, wsHist,
                   out>>

\* context.wrap_socket(sock, server_hostname=hostname).  When it raises, the
\* ssl module has closed the socket if the TLS handshake failed and has left
\* it open if it refused its arguments; the driver itself closes nothing.
wrap_socket ==
    /\ pc = "tls"
    /\ \/ pc' = "send_handshake" /\ UNCHANGED <<outcome, sock>>
       \/ Raise("SSLError") /\ sock' \in {"open", "closed"}
    /\ scheme' = "(read)"
    /\ UNCHANGED <<question, closes, resp, connects, requests, buffer,
                   server, wsHist, out>>

\* sock.sendall(handshake.encode())
send_handshake ==
    /\ pc = "send_handshake"
    /\ \/ /\ requests' = Append(requests, "GET")
          /\ pc' = "read_headers"
          /\ outcome' = outcome
       \/ Raise("BrokenPipeError") /\ UNCHANGED requests
    /\ UNCHANGED <<scheme, question, sock, closes, resp, connects, buffer,
                   server, wsHist, out>>

\* one turn of the loop of _read_http_response_headers: sock.recv(1) returns
\* the next byte of the server's answer, returns nothing (the server closed),
\* or times out
read_http_response_headers ==
    /\ pc = "read_headers"
    /\ IF contains(buffer, encode(Crlf2))
       THEN pc' = "check" /\ UNCHANGED <<outcome, buffer>>
       ELSE \/ /\ \E r \in Responses :
                    /\ IsPrefix(buffer, r)
                    /\ Len(buffer) < Len(r)
                    /\ buffer' = Append(buffer, r[Len(buffer) + 1])
               /\ UNCHANGED <<pc, outcome>>
            \/ pc' = "check" /\ UNCHANGED <<outcome, buffer>>
            \/ Raise("TimeoutError") /\ UNCHANGED buffer
    /\ UNCHANGED <<scheme, question, sock, closes, resp, connects, requests,
                   server, wsHist, out>>

\* response_headers.split("\r\n", 1)[0]
first_line(headers) ==
    IF contains(headers, Crlf)
    THEN LET i == CHOOSE i \in 1..Len(headers) :
                    /\ SubSeq(headers, i, i + 1) = Crlf
                    /\ \A j \in 1..(i - 1) : SubSeq(headers, j, j + 1) # Crlf
         IN  SubSeq(headers, 1, i - 1)
    ELSE headers

\* "101" looked for in all of response_headers
upgraded_anywhere(headers) == contains(headers, <<"1", "0", "1">>)

\* "101" in response_headers.split("\r\n", 1)[0]
upgraded(headers) == contains(first_line(headers), <<"1", "0", "1">>)

\* lines 98-102: the check of the status line, then the question is sent
check_upgrade ==
    /\ pc = "check"
    /\ IF ~upgraded(decode(buffer))
       THEN /\ sock' = "closed"
            /\ closes' = closes + 1
            /\ Raise("ConnectionError")
            /\ UNCHANGED <<buffer, sentFrames>>
       ELSE /\ \/ /\ \E key \in MaskKeys :
                       sentFrames' = Append(sentFrames,
                           send_websocket_message(QuestionText(question),
                                                  key))
                  /\ pc' = "recv"
                  /\ outcome' = outcome
               \/ Raise("BrokenPipeError") /\ UNCHANGED sentFrames
            /\ buffer' = <<>>
            /\ UNCHANGED <<sock, closes>>
    /\ UNCHANGED <<scheme, question, resp, connects, requests, server, rpos,
                   inbound, out>>

(***************************************************************************)
(* _stream_websocket: the receive loop and its finally clause.             *)
(***************************************************************************)
\* the receive loop without its finally clause
finally_without_close(how) ==
    /\ pc' = "end"
    /\ outcome' = how
    /\ UNCHANGED <<sock, closes>>

\* finally: sock.close(), then the generator ends with `how`
finally(how) ==
    /\ sock' = "closed"
    /\ closes' = closes + 1
    /\ pc' = "end"
    /\ outcome' = how

\* a text frame normalized while the loop goes on to the next frame
on_text_keeps_reading(payload) ==
    /\ normIn' = Append(normIn, decode(payload))
    /\ yielded' = Append(yielded, normalize_message(decode(payload)))
    /\ UNCHANGED <<pc, outcome, sock, closes, sentFrames>>

\* opcode == 0x1: the payload is decoded, normalized and yielded
on_text(payload) ==
    /\ normIn' = Append(normIn, decode(payload))
    /\ yielded' = Append(yielded, normalize_message(decode(payload)))
    /\ pc' = "yield"
    /\ UNCHANGED <<outcome, sock, closes, sentFrames>>

\* a close frame handled like the frames that are dropped
on_close_ignored ==
    UNCHANGED <<pc, outcome, sock, closes, sentFrames, normIn, yielded>>

\* a close frame answered with a close frame before the loop is left
on_close_replies ==
    /\ finally("done")
    /\ \E key \in MaskKeys :
            sentFrames' = Append(sentFrames,
                send_websocket_frame(8, <<>>, TRUE, key))
    /\ UNCHANGED <<normIn, yielded>>

\* opcode == 0x8: break
on_close ==
    /\ finally("done")
    /\ UNCHANGED <<sentFrames, normIn, yielded>>

\* opcode == 0x9: a pong with the ping's payload is sent, or sendall raises
on_ping(payload) ==
    /\ \/ /\ \E key \in MaskKeys :
               sentFrames' = Append(sentFrames,
                   send_websocket_frame(10, payload, TRUE, key))
          /\ UNCHANGED <<pc, outcome, sock, closes>>
       \/ finally("BrokenPipeError") /\ UNCHANGED sentFrames
    /\ UNCHANGED <<normIn, yielded>>

\* a frame of another opcode ending the loop as a close frame does
on_other_ends ==
    /\ finally("done")
    /\ UNCHANGED <<sentFrames, normIn, yielded>>

\* any other opcode: the loop goes on
on_other ==
    UNCHANGED <<pc, outcome, sock, closes, sentFrames, normIn, yielded>>

\* the body of the for loop for one frame: the server's frame at rpos is
\* read and handled
recv_frame ==
    /\ pc = "recv"
    /\ \E chunk \in 1..MaxChunk :
        LET f == recv_websocket_message(wire, rpos, chunk)
        IN  /\ f.ok
            /\ rpos' = f.pos
            /\ inbound' = Append(inbound,
                                 [opcode |-> f.opcode, payload |-> f.payload])
            /\ IF f.opcode = 1 THEN on_text(f.payload)
               ELSE IF f.opcode = 8 THEN on_close
               ELSE IF f.opcode = 9 THEN on_ping(f.payload)
               ELSE on_other
    /\ UNCHANGED <<scheme, question, resp, connects, requests, buffer,
                   server, httpLines>>

\* a failed read of a frame taken for the end of the sequence
recv_fail_ends ==
    /\ pc = "recv"
    /\ \E chunk \in 1..MaxChunk :
        LET f == recv_websocket_message(wire, rpos, chunk)
        IN  /\ ~f.ok
            /\ rpos' = f.pos
            /\ finally("done")
    /\ UNCHANGED <<scheme, question, resp, connects, requests, buffer,
                   server, sentFrames, inbound, out>>

\* the read of a frame fails: the server closed before the frame's last byte
\* (ConnectionError of _recv_exact) or sock.recv timed out
recv_fail ==
    /\ pc = "recv"
    /\ \E chunk \in 1..MaxChunk :
        LET f == recv_websocket_message(wire, rpos, chunk)
        IN  /\ ~f.ok
            /\ rpos' = f.pos
            /\ finally(IF eof THEN "ConnectionError" ELSE "TimeoutError")
    /\ UNCHANGED <<scheme, question, resp, connects, requests, buffer,
                   server, sentFrames, inbound, out>>

\* the caller asks for the next message
next_message ==
    /\ pc = "yield"
    /\ pc' = "recv"
    /\ UNCHANGED <<scheme, question, outcome, sock, closes, resp, connects,
                   requests, buffer, server, wsHist, out>>

\* the caller stops consuming: GeneratorExit is raised at the yield
generator_close ==
    /\ pc = "yield"
    /\ finally("closed")
    /\ UNCHANGED <<scheme, question, resp, connects, requests, buffer,
                   server, wsHist, out>>

(***************************************************************************)
(* The server's side of the WebSocket connection.                          *)
(***************************************************************************)
\* the server sends one whole frame; it is less than MaxAhead frames ahead
\* of the driver's reads
server_send ==
    /\ pc \in {"recv", "yield"}
    /\ ~eof
    /\ nframes < MaxFrames
    /\ nframes - Len(inbound) < MaxAhead
    /\ \E f \in InFrames : wire' = wire \o f
    /\ nframes' = nframes + 1
    /\ UNCHANGED <<scheme, question, pc, outcome, sock, closes, resp,
                   connects, requests, buffer, eof, wsHist, out>>

\* the server closes the connection, after a frame or within one; the
\* driver sees it once it has read what came before
server_close ==
    /\ pc \in {"recv", "yield"}
    /\ ~eof
    /\ rpos > Len(wire)
    /\ eof' = TRUE
    /\ \E cut \in Cuts : wire' = wire \o cut
    /\ UNCHANGED <<scheme, question, pc, outcome, sock, closes, resp,
                   connects, requests, buffer, nframes, wsHist, out>>

(***************************************************************************)
(* _stream_http.                                                           *)
(***************************************************************************)
\* urlopen(req, timeout=self.timeout): the response, or an error status of
\* the server, or an error before a connection stands
urlopen ==
    /\ pc = "urlopen"
    /\ connects' = connects + 1
    /\ \/ /\ requests' = Append(requests, "POST")
          /\ resp' = "open"
          /\ pc' = "http_read"
          /\ outcome' = outcome
       \/ /\ requests' = Append(requests, "POST")
          /\ Raise("URLError")
          /\ UNCHANGED resp
       \/ Raise("URLError") /\ UNCHANGED <<requests, resp>>
    /\ UNCHANGED <<scheme, question, sock, closes, buffer, server, wsHist,
                   out>>

\* the loop body without the strip() that follows the removal of data:
http_line_keeps_space(raw_line) ==
    LET line == strip(decode(raw_line))
    IN  IF line = <<>> THEN [skip |-> TRUE, text |-> <<>>]
        ELSE IF startswith(line, DataPrefix)
            THEN [skip |-> FALSE,
                  text |-> SubSeq(line, Len(DataPrefix) + 1, Len(line))]
        ELSE [skip |-> FALSE, text |-> line]

\* the body of the for loop for one raw line, lines 68-73: the text handed
\* to _normalize_message, or skip
http_line(raw_line) ==
    LET line == strip(decode(raw_line))
    IN  IF line = <<>> THEN [skip |-> TRUE, text |-> <<>>]
        ELSE IF startswith(line, DataPrefix)
            THEN [skip |-> FALSE,
                  text |-> strip(SubSeq(line, Len(DataPrefix) + 1, Len(line)))]
        ELSE [skip |-> FALSE, text |-> line]

\* leaving the with block closes the response
with_exit(how) ==
    /\ resp' = "closed"
    /\ pc' = "end"
    /\ outcome' = how

\* one turn of `for raw_line in resp`: a line, the end of the body, or a
\* failed read
http_read ==
    /\ pc = "http_read"
    /\ \/ /\ Len(httpLines) < MaxLines
          /\ \E raw \in RawLines :
                LET l == http_line(raw)
                IN  /\ httpLines' = Append(httpLines, raw)
                    /\ IF l.skip
                       THEN UNCHANGED <<pc, normIn, yielded>>
                       ELSE /\ normIn' = Append(normIn, l.text)
                            /\ yielded' = Append(yielded,
                                                 normalize_message(l.text))
                            /\ pc' = "http_yield"
          /\ UNCHANGED <<outcome, resp>>
       \/ with_exit("done") /\ UNCHANGED out
       \/ with_exit("TimeoutError") /\ UNCHANGED out
    /\ UNCHANGED <<scheme, question, sock, closes, connects, requests,
                   buffer, server, wsHist>>

\* the caller asks for the next message
http_next ==
    /\ pc = "http_yield"
    /\ pc' = "http_read"
    /\ UNCHANGED <<scheme, question, outcome, sock, closes, resp, connects,
                   requests, buffer, server, wsHist, out>>

\* the caller stops consuming: GeneratorExit is raised at the yield
http_close ==
    /\ pc = "http_yield"
    /\ with_exit("closed")
    /\ UNCHANGED <<scheme, question, sock, closes, connects, requests,
                   buffer, server, wsHist, out>>

(***************************************************************************)
(* The specification.                                                      *)
(***************************************************************************)
Next ==
    \/ stream
    \/ close_unstarted
    \/ create_connection
    \/ wrap_socket
    \/ send_handshake
    \/ read_http_response_headers
    \/ check_upgrade
    \/ recv_frame
    \/ recv_fail
    \/ next_message
    \/ generator_close
    \/ server_send
    \/ server_close
    \/ urlopen
    \/ http_read
    \/ http_next
    \/ http_close

Spec == Init /\ [][Next]_vars

(***************************************************************************)
(* _normalize_message on its own: one call on the text of a JSON mapping.  *)
(***************************************************************************)
\* most keys of a mapping handed to the normalizer
MaxKeys == 2

KeyId == <<"i", "d">>

\* the values the speaker keys carry in the mappings
SpeakerValues ==
    {JStr(<<>>), JStr(<<"b">>), JInt(0), JBool(FALSE), JNull}

\* the values the body keys carry in the mappings
BodyValues ==
    {JStr(<<>>), JStr(<<"a">>), JInt(0), JBool(FALSE), JNull,
     JList(<<>>), JList(<<JInt(1)>>),
     JDict(<<>>), JDict(<<[k |-> <<"a">>, v |-> JInt(1)]>>)}

\* the items of the mappings
DocItems ==
    {[k |-> key, v |-> val] :
        key \in {KeyUser, KeySender, KeyName, KeyRole}, val \in SpeakerValues}
    \cup {[k |-> key, v |-> val] :
        key \in {KeyMessage, KeyContent, KeyText, KeyBody}, val \in BodyValues}
    \cup {[k |-> KeyId, v |-> JInt(1)]}

\* the mappings of n items, no key twice
RECURSIVE DocsOf(_)
DocsOf(n) ==
    IF n = 0 THEN {<<>>}
    ELSE UNION {{Append(d, item) :
                    item \in {it \in DocItems :
                                \A i \in 1..Len(d) : d[i].k # it.k}} :
                d \in DocsOf(n - 1)}

\* the mappings of at most n items
DocsUpTo(n) == UNION {DocsOf(k) : k \in 0..n}

\* the caller holds the text of a mapping, as the server serialized it
NormalizerInit ==
    /\ scheme = "(read)"
    /\ question \in Questions
    /\ pc = "normalize"
    /\ outcome = "running"
    /\ sock = "none"
    /\ closes = 0
    /\ resp = "none"
    /\ connects = 0
    /\ requests = <<>>
    /\ buffer = <<>>
    /\ sentFrames = <<>>
    /\ wire = <<>>
    /\ eof = FALSE
    /\ nframes = 0
    /\ rpos = 1
    /\ inbound = <<>>
    /\ httpLines = <<>>
    /\ \E d \in DocsUpTo(MaxKeys) : normIn = <<JsonDumps(JDict(d))>>
    /\ yielded = <<>>

\* self._normalize_message(text)
normalize ==
    /\ pc = "normalize"
    /\ yielded' = Append(yielded, normalize_message(normIn[Len(normIn)]))
    /\ pc' = "end"
    /\ outcome' = "done"
    /\ UNCHANGED <<scheme, question, sock, closes, resp, connects, requests,
                   buffer, server, wsHist, httpLines, normIn>>

NormalizerSpec == NormalizerInit /\ [][normalize]_vars

(***************************************************************************)
(* The frame codec on its own: the decoder reads what the encoder wrote.   *)
(* requests holds the calls of _send_websocket_frame, as records of their  *)
(* arguments and of the mask key drawn; sentFrames the bytes of each call; *)
(* wire all of them in order; rpos and inbound are the decoder's.          *)
(***************************************************************************)
\* a call of _send_websocket_frame
FrameCall(opcode, payload, mask, key) ==
    [opcode |-> opcode, payload |-> payload, mask |-> mask, key |-> key]

\* the calls made: every opcode with an empty masked payload and with a
\* short payload unmasked, and text frames with payloads of 1 to 5 bytes
CodecCalls ==
    {FrameCall(op, <<>>, TRUE, <<1, 2, 3, 255>>) : op \in 0..15}
    \cup {FrameCall(op, encode(hi), FALSE, <<>>) : op \in 0..15}
    \cup {FrameCall(1, p, TRUE, key) :
            p \in {<<104>>, <<0, 255, 128>>, <<1, 2, 3, 255>>,
                   <<0, 255, 128, 7, 64>>},
            key \in MaskKeys}
    \cup {FrameCall(1, <<>>, FALSE, <<>>)}

CodecInit ==
    /\ scheme = "(read)"
    /\ question \in Questions
    /\ pc = "codec"
    /\ outcome = "running"
    /\ sock = "open"
    /\ closes = 0
    /\ resp = "none"
    /\ connects = 0
    /\ requests = <<>>
    /\ buffer = <<>>
    /\ sentFrames = <<>>
    /\ wire = <<>>
    /\ eof = FALSE
    /\ nframes = 0
    /\ rpos = 1
    /\ inbound = <<>>
    /\ httpLines = <<>>
    /\ normIn = <<>>
    /\ yielded = <<>>

\* self._send_websocket_frame(sock, opcode, payload, mask)
codec_send ==
    /\ pc = "codec"
    /\ nframes < MaxFrames
    /\ \E c \in CodecCalls :
        LET bytes == send_websocket_frame(c.opcode, c.payload, c.mask, c.key)
        IN  /\ requests' = Append(requests, c)
            /\ sentFrames' = Append(sentFrames, bytes)
            /\ wire' = wire \o bytes
    /\ nframes' = nframes + 1
    /\ UNCHANGED <<scheme, question, pc, outcome, sock, closes, resp,
                   connects, buffer, eof, rpos, inbound, out>>

\* next(self._recv_websocket_messages(sock))
codec_recv ==
    /\ pc = "codec"
    /\ rpos <= Len(wire)
    /\ \E chunk \in 1..MaxChunk :
        LET f == recv_websocket_message(wire, rpos, chunk)
        IN  IF f.ok
            THEN /\ inbound' = Append(inbound, [opcode |-> f.opcode,
                                                payload |-> f.payload])
                 /\ rpos' = f.pos
                 /\ UNCHANGED <<pc, outcome>>
            ELSE /\ Raise("ConnectionError")
                 /\ rpos' = f.pos
                 /\ UNCHANGED inbound
    /\ UNCHANGED <<scheme, question, sock, closes, resp, connects, requests,
                   buffer, sentFrames, server, out>>

CodecNext == codec_send \/ codec_recv

CodecSpec == CodecInit /\ [][CodecNext]_vars

(***************************************************************************)
(* The length field: one frame of a given length, encoded and decoded.     *)
(***************************************************************************)
\* the payload lengths: around the ends of the 7-bit and the 16-bit form
Lengths == (0..2) \cup (124..127) \cup (65534..65537)

\* a payload of n bytes
PayloadOf(n) == [i \in 1..n |-> i % 256]

LengthCalls ==
    {FrameCall(op, PayloadOf(n), FALSE, <<>>) :
        op \in {1, 2, 10}, n \in Lengths}
    \cup {FrameCall(op, PayloadOf(n), TRUE, <<1, 2, 3, 255>>) :
        op \in {1, 2, 10}, n \in Lengths}

LengthInit ==
    /\ scheme = "(read)"
    /\ question \in Questions
    /\ pc = "length_send"
    /\ outcome = "running"
    /\ sock = "open"
    /\ closes = 0
    /\ resp = "none"
    /\ connects = 0
    /\ \E c \in LengthCalls : requests = <<c>>
    /\ buffer = <<>>
    /\ sentFrames = <<>>
    /\ wire = <<>>
    /\ eof = FALSE
    /\ nframes = 0
    /\ rpos = 1
    /\ inbound = <<>>
    /\ httpLines = <<>>
    /\ normIn = <<>>
    /\ yielded = <<>>

\* self._send_websocket_frame(sock, opcode, payload, mask)
length_send ==
    /\ pc = "length_send"
    /\ LET c == requests[1]
           bytes == send_websocket_frame(c.opcode, c.payload, c.mask, c.key)
       IN  /\ sentFrames' = <<bytes>>
           /\ wire' = bytes
    /\ nframes' = 1
    /\ pc' = "length_recv"
    /\ UNCHANGED <<scheme, question, outcome, sock, closes, resp, connects,
                   requests, buffer, eof, rpos, inbound, out>>

\* next(self._recv_websocket_messages(sock)), each recv returning all the
\* bytes asked for
length_recv ==
    /\ pc = "length_recv"
    /\ LET f == recv_websocket_message(wire, rpos, Len(wire))
       IN  IF f.ok
           THEN /\ inbound' = <<[opcode |-> f.opcode, payload |-> f.payload]>>
                /\ rpos' = f.pos
                /\ pc' = "end"
                /\ outcome' = "done"
           ELSE /\ Raise("ConnectionError")
                /\ rpos' = f.pos
                /\ UNCHANGED inbound
    /\ UNCHANGED <<scheme, question, sock, closes, resp, connects, requests,
                   buffer, sentFrames, server, out>>

LengthNext == length_send \/ length_recv

LengthSpec == LengthInit /\ [][LengthNext]_vars

(***************************************************************************)
(* What the claims speak of.                                               *)
(***************************************************************************)
\* a frame the driver sent, as its peer reads it (payloads below 126 bytes)
peer_read(frame) ==
    LET masked == frame[2] >= 128
        key == SubSeq(frame, 3, 6)
        body == SubSeq(frame, IF masked THEN 7 ELSE 3, Len(frame))
    IN  [opcode |-> frame[1] % 16,
         payload |-> IF masked
                     THEN [i \in 1..Len(body) |->
                              Xor(body[i], key[((i - 1) % 4) + 1])]
                     ELSE body]

IsText(f) == f.opcode = 1
IsPing(f) == f.opcode = 9
IsClose(f) == f.opcode = 8
IsPong(frame) == peer_read(frame).opcode = 10

\* the status line, the text before the first CRLF, holds 101
StatusLineHas101(h) ==
    \E i \in 1..(Len(h) - 2) :
        /\ SubSeq(h, i, i + 2) = <<"1", "0", "1">>
        /\ \A j \in 1..(i - 1) : SubSeq(h, j, j + 1) # Crlf

\* a text without the whitespace around it
Trimmed(s) ==
    LET inner == {i \in 1..Len(s) : s[i] \notin Whitespace}
    IN  IF inner = {} THEN <<>>
        ELSE SubSeq(s, CHOOSE i \in inner : \A j \in inner : i <= j,
                       CHOOSE i \in inner : \A j \in inner : i >= j)

NotBlank(s) == Trimmed(s) # <<>>

\* what the HTTP driver is to hand to the normalizer for a line that is not
\* blank: the trimmed line, without data: and the whitespace after it
Handed(s) ==
    LET t == Trimmed(s)
    IN  IF Len(t) >= 5 /\ SubSeq(t, 1, 5) = <<"d", "a", "t", "a", ":">>
        THEN Trimmed(SubSeq(t, 6, Len(t)))
        ELSE t

\* the text of the question frame
ExpectedQuestion ==
    <<"{", "\"", "q", "u", "e", "s", "t", "i", "o", "n", "\"", ":", " ", "\"">>
    \o question \o <<"\"", "}">>

(***************************************************************************)
(* The claims.                                                             *)
(***************************************************************************)
\* C1: once the question is sent and the receive loop runs, the socket stays
\* open, with no close() call, while the sequence lasts, and is closed by
\* exactly one close() call when it has ended, however it ended.
C1_ClosedExactlyOnce ==
    sentFrames # <<>> =>
        IF pc = "end" THEN sock = "closed" /\ closes = 1
        ELSE sock = "open" /\ closes = 0

\* the caller stopped consuming after a message, and the socket is closed
C1_Witness ==
    /\ sentFrames # <<>>
    /\ outcome = "closed"
    /\ yielded # <<>>
    /\ sock = "closed"
    /\ closes = 1

\* C2: on every error path of a WebSocket call the socket that was opened is
\* closed when the error reaches the caller.
C2_ClosedOnEveryError ==
    (outcome \in Errors /\ sock # "none") => sock = "closed"

\* C3: the pongs sent answer the pings received, one for one and in order,
\* each with the ping's payload once unmasked; a ping yields no message.  A
\* ping is left without its pong only when sending the pong raised.
C3_PongAnswersPing ==
    LET pings == SelectSeq(inbound, IsPing)
        pongs == SelectSeq(sentFrames, IsPong)
    IN  /\ Len(pongs) <= Len(pings)
        /\ \A i \in 1..Len(pongs) :
                peer_read(pongs[i]).payload = pings[i].payload
        /\ outcome # "BrokenPipeError" => Len(pongs) = Len(pings)
        /\ resp = "none" => Len(yielded) = Len(SelectSeq(inbound, IsText))

\* a ping with a payload was answered by a pong masked with a key that
\* changes its bytes, and nothing was yielded
C3_Witness ==
    /\ Len(inbound) = 1
    /\ inbound[1] = [opcode |-> 9, payload |-> encode(hi)]
    /\ Len(sentFrames) = 2
    /\ SubSeq(sentFrames[2], 3, 6) = <<1, 2, 3, 255>>
    /\ yielded = <<>>
    /\ pc = "recv"

\* what a close frame read leaves: it is the last frame read, the sequence
\* has ended without an error, and the messages are those of the text frames
\* before it
C4_AfterClose ==
    \A i \in 1..Len(inbound) :
        IsClose(inbound[i]) =>
            /\ i = Len(inbound)
            /\ pc = "end"
            /\ outcome = "done"
            /\ Len(yielded) = Len(SelectSeq(inbound, IsText))

\* C4: a close frame ends the sequence normally, and once it is read nothing
\* more is read from the socket, yielded or sent, whatever the server sends.
C4_CloseEndsSequence ==
    /\ []C4_AfterClose
    /\ [][(\E i \in 1..Len(inbound) : IsClose(inbound[i]))
            => UNCHANGED <<rpos, inbound, yielded, sentFrames, outcome>>]_vars

\* a close frame was read while another frame follows it on the wire
C4_Witness ==
    /\ inbound # <<>>
    /\ IsClose(inbound[Len(inbound)])
    /\ rpos <= Len(wire)
    /\ outcome = "done"

\* C5: when the status line read holds no 101, the check of it closes the
\* socket and raises, and no frame has been sent and no message yielded.
C5_RejectedUpgrade ==
    [][(pc = "check" /\ ~StatusLineHas101(decode(buffer)))
        => /\ pc' = "end"
           /\ outcome' = "ConnectionError"
           /\ sock' = "closed"
           /\ sentFrames' = <<>>
           /\ yielded' = <<>>]_vars

\* the server closed before any header byte, and the call has failed
C5_Witness ==
    /\ requests = <<"GET">>
    /\ buffer = <<>>
    /\ outcome = "ConnectionError"
    /\ sock = "closed"
    /\ sentFrames = <<>>

\* the frames sent are the question frame, a text frame, and then pongs; the
\* question frame is there before a frame is read and while the loop runs
C6_Frames ==
    /\ \A i \in 1..Len(sentFrames) :
            peer_read(sentFrames[i]).opcode = IF i = 1 THEN 1 ELSE 10
    /\ sentFrames # <<>> =>
            /\ decode(peer_read(sentFrames[1]).payload) = ExpectedQuestion
            /\ requests = <<"GET">>
    /\ inbound # <<>> => sentFrames # <<>>
    /\ pc \in {"recv", "yield"} => sentFrames # <<>>

\* C6: one text frame is sent in a session, with the serialized question,
\* after the status line was found to hold 101 and before any frame is read;
\* every other frame sent is a pong.
C6_OneQuestionFrame ==
    /\ []C6_Frames
    /\ [][(sentFrames = <<>> /\ sentFrames' # <<>>)
            => /\ pc = "check"
               /\ StatusLineHas101(decode(buffer))
               /\ inbound = <<>>
               /\ rpos = 1]_vars

\* the question frame and a pong have been sent, and a message yielded
C6_Witness ==
    /\ Len(sentFrames) = 2
    /\ peer_read(sentFrames[1]).opcode = 1
    /\ peer_read(sentFrames[2]).opcode = 10
    /\ yielded # <<>>

\* the scheme of the call is none of those stream() supports
Unsupported == scheme \in Schemes \ {"http", "https", "ws", "wss"}

\* a call with an unsupported scheme has connected, sent and yielded nothing
C7_NoIO ==
    Unsupported =>
        /\ pc \in {"start", "end"}
        /\ pc = "end" => outcome \in {"ValueError", "closed"}
        /\ connects = 0
        /\ sock = "none"
        /\ resp = "none"
        /\ requests = <<>>
        /\ sentFrames = <<>>
        /\ yielded = <<>>

\* C7: with a scheme that is none of http, https, ws, wss the first step of
\* the call ends it, with ValueError when the generator was started, and
\* nothing was connected, sent or yielded.
C7_UnsupportedScheme ==
    /\ []C7_NoIO
    /\ [][(pc = "start" /\ Unsupported)
            => /\ pc' = "end"
               /\ outcome' \in {"ValueError", "closed"}
               /\ connects' = 0
               /\ requests' = <<>>
               /\ sentFrames' = <<>>
               /\ yielded' = <<>>]_vars

\* the call with the scheme ftp has failed
C7_Witness == scheme = "ftp" /\ outcome = "ValueError"

\* C8: one stream call connects at most once, whatever happens after.
C8_AtMostOneConnection == connects <= 1

\* the upgrade was rejected after the one connection
C8_Witness ==
    /\ connects = 1
    /\ outcome = "ConnectionError"
    /\ pc = "end"

\* C9: the texts handed to the normalizer are, in order, those of the lines
\* that are not blank once trimmed, each the trimmed line without data: and
\* the whitespace after it, and each has yielded one message.
C9_HttpLines ==
    resp # "none" =>
        LET lines == SelectSeq([i \in 1..Len(httpLines) |->
                                    decode(httpLines[i])], NotBlank)
        IN  /\ Len(normIn) = Len(lines)
            /\ \A i \in 1..Len(lines) : normIn[i] = Handed(lines[i])
            /\ Len(yielded) = Len(lines)
            /\ \A i \in 1..Len(lines) :
                    yielded[i] = normalize_message(Handed(lines[i]))

\* a blank line, then a line with space before data: and after it
C9_Witness ==
    /\ Len(httpLines) = 2
    /\ httpLines[1] = encode(<<" ", "\n">>)
    /\ httpLines[2] = encode(<<" ">> \o DataPrefix \o <<" ">> \o hi \o <<"\n">>)
    /\ normIn = <<hi>>
    /\ Len(yielded) = 1

\* C10: a text that is no JSON yields a message whose text and raw are the
\* text itself, and the generator stands at its yield, no error raised.
C10_NonJsonKept ==
    /\ Len(yielded) = Len(normIn)
    /\ \A i \in 1..Len(normIn) :
            ~JsonLoads(normIn[i]).ok =>
                /\ yielded[i].text = normIn[i]
                /\ yielded[i].raw = JStr(normIn[i])
    /\ pc \in {"yield", "http_yield"} => outcome = "running"

\* a frame that is no JSON was yielded as it is, and the frame after it was
\* handled too
C10_Witness ==
    /\ Len(normIn) = 2
    /\ normIn[1] = hi
    /\ yielded[1] = [text |-> hi, raw |-> JStr(hi)]
    /\ yielded[2].text = <<"a">>
    /\ sock = "open"

(***************************************************************************)
(* What the claims on the normalizer speak of.                             *)
(***************************************************************************)
SpeakerKeys == <<KeyUser, KeySender, KeyName, KeyRole>>
BodyKeys == <<KeyMessage, KeyContent, KeyText, KeyBody>>

\* the places in keys of the keys the mapping d holds with a value that is
\* not null
Found(d, keys) ==
    {i \in 1..Len(keys) :
        \E n \in 1..Len(d.v) : d.v[n].k = keys[i] /\ d.v[n].v # JNull}

\* the value of the first of keys that d holds
FirstFound(d, keys) ==
    DictGet(d, keys[CHOOSE i \in Found(d, keys) :
                        \A j \in Found(d, keys) : i <= j])

\* the mapping the one call of the normalizer was given
GivenDoc == JsonLoads(normIn[1]).v

\* the call has returned
Normalized == pc = "end" /\ Len(normIn) = 1 /\ Len(yielded) = 1

\* json.dumps(value, separators=(",", ":")): no whitespace between tokens
RECURSIVE CompactDumps(_)
RECURSIVE CompactItems(_, _)
CompactItems(items, isDict) ==
    IF items = <<>> THEN <<>>
    ELSE LET one == IF isDict
                    THEN <<"\"">> \o Head(items).k \o <<"\"", ":">>
                         \o CompactDumps(Head(items).v)
                    ELSE CompactDumps(Head(items))
         IN  IF Len(items) = 1 THEN one
             ELSE one \o <<",">> \o CompactItems(Tail(items), isDict)

CompactDumps(value) ==
    IF value.t = "list" THEN <<"[">> \o CompactItems(value.v, FALSE) \o <<"]">>
    ELSE IF value.t = "dict"
        THEN <<"{">> \o CompactItems(value.v, TRUE) \o <<"}">>
    ELSE JsonDumps(value)

\* the text of a body: a mapping or a sequence serialized as the code
\* serializes, anything else stringified
BodyText(v) == IF v.t \in {"dict", "list"} THEN JsonDumps(v) ELSE PyStr(v)

\* the text of the body the spec selects: the first body key the mapping
\* holds, the whole mapping when it holds none
SpecBodyText(d) ==
    IF Found(d, BodyKeys) = {} THEN JsonDumps(d)
    ELSE BodyText(FirstFound(d, BodyKeys))

\* the first body key the mapping holds, if any, carries a value that `or`
\* takes: the body is then the same to the spec and to the code
BodyUndisputed(d) ==
    Found(d, BodyKeys) = {} \/ Truthy(FirstFound(d, BodyKeys))

(***************************************************************************)
(* The claims on the normalizer.                                           *)
(***************************************************************************)
\* C11: for a mapping without speaker, the text is the body, and the body is
\* the value of the first of message, content, text, body the mapping holds
\* (a key that carries null taken as absent), whatever that value is; it is
\* the whole mapping serialized only when the mapping holds none of them.
C11_BodyIsFirstPresent ==
    (Normalized /\ Found(GivenDoc, SpeakerKeys) = {}) =>
        yielded[1].text = SpecBodyText(GivenDoc)

\* C12: the speaker is the value of the first of user, sender, name, role the
\* mapping holds with a value that is not null, whatever that value is; the
\* text is the speaker, a colon, a space and the body when there is one, and
\* the body alone when there is none.
C12_SpeakerIsFirstNonNull ==
    (Normalized /\ BodyUndisputed(GivenDoc)) =>
        yielded[1].text =
            IF Found(GivenDoc, SpeakerKeys) = {}
            THEN SpecBodyText(GivenDoc)
            ELSE PyStr(FirstFound(GivenDoc, SpeakerKeys)) \o <<":", " ">>
                 \o SpecBodyText(GivenDoc)

\* C13: for a mapping without speaker whose first body key carries a mapping
\* or a sequence, empty or not, the text is that value serialized with no
\* whitespace between the tokens.
C13_StructuredBodyCompact ==
    (/\ Normalized
     /\ Found(GivenDoc, SpeakerKeys) = {}
     /\ Found(GivenDoc, BodyKeys) # {}) =>
        (FirstFound(GivenDoc, BodyKeys).t \in {"dict", "list"} =>
            yielded[1].text = CompactDumps(FirstFound(GivenDoc, BodyKeys)))

(***************************************************************************)
(* The claims on the receive loop.                                         *)
(***************************************************************************)
\* the messages yielded are those of the text frames read, in order, each
\* normalized from its own payload
C14_Messages ==
    resp = "none" =>
        LET texts == SelectSeq(inbound, IsText)
        IN  /\ Len(yielded) = Len(texts)
            /\ \A i \in 1..Len(texts) :
                    yielded[i] = normalize_message(decode(texts[i].payload))

\* C14: the messages of a WebSocket session are, one for one and in order,
\* those of the text frames read (none is read after a close frame); a step
\* reads at most one frame and yields at most one message, a message is
\* yielded only by the step that read its text frame, which hands control to
\* the caller, and no frame is read until the caller asks for more.
C14_OneMessagePerTextFrame ==
    /\ []C14_Messages
    /\ [][resp = "none" =>
            /\ Len(inbound') <= Len(inbound) + 1
            /\ Len(yielded') <= Len(yielded) + 1
            /\ yielded' # yielded =>
                    /\ Len(inbound') = Len(inbound) + 1
                    /\ IsText(inbound'[Len(inbound')])
                    /\ pc' = "yield"
            /\ pc = "yield" => inbound' = inbound /\ rpos' = rpos]_vars

\* a ping then a text frame were read, and the one message is the text
\* frame's
C14_Witness ==
    /\ Len(inbound) = 2
    /\ IsPing(inbound[1])
    /\ inbound[2] = [opcode |-> 1, payload |-> encode(textA)]
    /\ Len(yielded) = 1
    /\ yielded[1].text = <<"a">>
    /\ pc = "yield"

\* the bytes that arrived and are not read yet
Unread == SubSeq(wire, rpos, Len(wire))

\* C15: when the server has closed and what is left to read is a frame cut
\* short (in its header, its extended length, its mask key or its payload),
\* the step the driver takes raises ConnectionError, with the socket closed
\* and nothing yielded or taken for a frame; and a frame reads the same
\* however few bytes each recv returns.
C15_CutFrameFails ==
    /\ [](\A chunk \in 1..MaxChunk :
            recv_websocket_message(wire, rpos, chunk)
                = recv_websocket_message(wire, rpos, Len(wire) + 1))
    /\ [][(pc = "recv" /\ eof /\ Unread # <<>> /\ Unread \in Cuts)
            => /\ pc' = "end"
               /\ outcome' = "ConnectionError"
               /\ sock' = "closed"
               /\ closes' = 1
               /\ yielded' = yielded
               /\ inbound' = inbound]_vars

\* the server closed within the extended length of a frame, after a whole
\* text frame that was yielded, and the call has failed
C15_Witness ==
    /\ wire = server_frame(1, encode(hi), FALSE, <<>>) \o <<129, 126, 0>>
    /\ eof
    /\ Len(yielded) = 1
    /\ outcome = "ConnectionError"
    /\ sock = "closed"

\* C16: the step that reads a frame whose opcode is none of 1, 8, 9 yields
\* nothing, sends nothing, raises nothing and leaves the loop reading.
C16_OtherOpcodesDropped ==
    [][(Len(inbound') = Len(inbound) + 1
            /\ inbound'[Len(inbound')].opcode \notin {1, 8, 9})
        => /\ pc' = "recv"
           /\ outcome' = "running"
           /\ sock' = "open"
           /\ yielded' = yielded
           /\ sentFrames' = sentFrames]_vars

\* a binary frame was dropped and the text frame after it yielded
C16_Witness ==
    /\ Len(inbound) = 2
    /\ inbound[1] = [opcode |-> 2, payload |-> encode(hi)]
    /\ IsText(inbound[2])
    /\ Len(yielded) = 1
    /\ Len(sentFrames) = 1

\* C20: no frame the client sends is a close frame; the step that reads the
\* server's close frame, and the step that cancels the stream, send nothing
\* and close the socket.
C20_NoCloseFrameSent ==
    /\ [](\A i \in 1..Len(sentFrames) : peer_read(sentFrames[i]).opcode # 8)
    /\ [][((Len(inbound') = Len(inbound) + 1
                /\ IsClose(inbound'[Len(inbound')]))
            \/ (outcome' = "closed" /\ sock = "open"))
          => /\ sentFrames' = sentFrames
             /\ sock' = "closed"
             /\ closes' = closes + 1]_vars

\* the caller cancelled after a ping was answered and a message yielded
C20_Witness ==
    /\ outcome = "closed"
    /\ sock = "closed"
    /\ Len(sentFrames) = 2
    /\ Len(inbound) = 2
    /\ IsPing(inbound[1])

(***************************************************************************)
(* The claims on the frame codec.                                          *)
(***************************************************************************)
\* the number a sequence of bytes writes, most significant byte first
RECURSIVE BigEndian(_)
BigEndian(bytes) ==
    IF bytes = <<>> THEN 0
    ELSE (BigEndian(SubSeq(bytes, 1, Len(bytes) - 1)) * 256)
         + bytes[Len(bytes)]

\* the bytes of the length field a frame's header needs at least: none
\* after the second byte up to 125, two up to 65535, eight above
MinimalExtra(n) == IF n <= 125 THEN 0 ELSE IF n <= 65535 THEN 2 ELSE 8

\* the frame was encoded: its length field is in the smallest form that
\* holds the length, and writes it
LengthFieldMinimal ==
    sentFrames # <<>> =>
        LET c == requests[1]
            frame == sentFrames[1]
            n == Len(c.payload)
            marker == frame[2] % 128
            extra == MinimalExtra(n)
        IN  /\ marker = (IF extra = 0 THEN n ELSE IF extra = 2 THEN 126 ELSE 127)
            /\ extra # 0 => BigEndian(SubSeq(frame, 3, 2 + extra)) = n
            /\ Len(frame) = 2 + extra + (IF c.mask THEN 4 ELSE 0) + n

\* the frame was decoded: the decoder found the length, read that many
\* bytes of payload and stands after the frame
LengthRecovered ==
    pc = "end" =>
        /\ outcome = "done"
        /\ Len(inbound) = 1
        /\ Len(inbound[1].payload) = Len(requests[1].payload)
        /\ rpos = Len(wire) + 1

\* C17: the encoder writes each length in the smallest of the three forms
\* that holds it (up to 125 in the second byte, up to 65535 after the marker
\* 126 in two bytes, above that after the marker 127 in eight bytes, most
\* significant byte first), and the decoder reading the frame recovers the
\* length.
C17_MinimalLengthForm == LengthFieldMinimal /\ LengthRecovered

\* a masked frame of 126 bytes, the first length the second byte cannot
\* hold, was encoded in the 16-bit form and decoded
C17_Witness ==
    /\ pc = "end"
    /\ Len(requests[1].payload) = 126
    /\ requests[1].mask
    /\ SubSeq(sentFrames[1], 1, 4) = <<129, 254, 0, 126>>
    /\ Len(inbound[1].payload) = 126

\* the payload bytes of the i-th frame sent, as they stand on the wire (the
\* payloads are below 126 bytes)
WirePayload(i) ==
    SubSeq(sentFrames[i], IF requests[i].mask THEN 7 ELSE 3,
           Len(sentFrames[i]))

\* C18: the payload of each masked frame stands on the wire masked with the
\* frame's key, unmasking those bytes with the key gives the payload back,
\* and the decoder hands the payload back as it was.
C18_MaskRoundTrip ==
    /\ \A i \in 1..Len(sentFrames) :
            requests[i].mask =>
                /\ WirePayload(i) = xor_mask(requests[i].payload, requests[i].key)
                /\ xor_mask(WirePayload(i), requests[i].key) = requests[i].payload
    /\ \A i \in 1..Len(inbound) :
            requests[i].mask => inbound[i].payload = requests[i].payload

\* a payload of 5 bytes was masked with a key that changes it, and decoded
C18_Witness ==
    /\ Len(inbound) = 1
    /\ requests[1].mask
    /\ requests[1].key = <<1, 2, 3, 255>>
    /\ requests[1].payload = <<0, 255, 128, 7, 64>>
    /\ WirePayload(1) = <<1, 253, 131, 248, 65>>
    /\ inbound[1].payload = <<0, 255, 128, 7, 64>>

\* the length of the first n frames sent
RECURSIVE SentLen(_)
SentLen(n) == IF n = 0 THEN 0 ELSE SentLen(n - 1) + Len(sentFrames[n])

\* C19: in the loopback of the codec the frames decoded are the frames
\* encoded, opcode and payload, in order; the decoder stands at the first
\* byte of the next frame, and it has failed on none.
C19_DecodeInvertsEncode ==
    pc \in {"codec", "end"} /\ Len(requests) = Len(sentFrames) =>
        /\ outcome = "running"
        /\ Len(inbound) <= Len(requests)
        /\ \A i \in 1..Len(inbound) :
                inbound[i] = [opcode |-> requests[i].opcode,
                              payload |-> requests[i].payload]
        /\ rpos = 1 + SentLen(Len(inbound))

\* a masked frame without payload and an unmasked frame after it, both
\* decoded
C19_Witness ==
    /\ pc = "codec"
    /\ Len(requests) = 2
    /\ requests[1] = FrameCall(8, <<>>, TRUE, <<1, 2, 3, 255>>)
    /\ inbound = <<[opcode |-> 8, payload |-> <<>>],
                   [opcode |-> 2, payload |-> encode(hi)]>>
    /\ rpos = Len(wire) + 1

====
